---- MODULE Spec2Model ----
(***************************************************************************)
(* Streetlight Points & Citizen Report API (src/main.py).                  *)
(*                                                                         *)
(* The process state is the module-level store geojson_data, filled once   *)
(* by the startup hook load_geojson_data, and the credential GITHUB_TOKEN  *)
(* read from the environment.  The request handlers get_points,            *)
(* health_check, root and chat_with_bot read that state and answer.        *)
(*                                                                         *)
(* Python values are modelled as tagged records so that values of          *)
(* different Python types stay comparable:                                 *)
(*   - a coordinate entry is [num, v]: a JSON number v, or a JSON string   *)
(*     when num is FALSE;                                                  *)
(*   - a feature is [geometry, type, coordinates, items]: whether the      *)
(*     "geometry" key is absent, null or an object, the object's "type",   *)
(*     whether its "coordinates" key is absent, null or a list, and the    *)
(*     list's entries;                                                     *)
(*   - a JSON value of a provider reply is [t, v] with t the JSON type.    *)
(***************************************************************************)
EXTENDS Integers, Sequences, FiniteSets, TLC

\* Coordinates and bounding-box parameters range over 0..MaxCoord degrees.
MaxCoord == 1
\* Longest feature list of a dataset file in SpecPoints.
MaxFeatures == 3
\* Longest feature list of a dataset file in Spec (all endpoints interleaved).
MaxServeFeatures == 1
\* Longest candidate file list handed to query_gpt4 (C5).
MaxFiles == 4

VARIABLES
    dataset_file,   \* what open()/json.load() of the GeoJSON file will find
    GITHUB_TOKEN,   \* os.getenv("GITHUB_TOKEN")
    geojson_data,   \* the module-level store
    startup,        \* "pending", "complete", or "failed" (the hook raised)
    chat,           \* the chat request in flight: [pc, calls]
    response        \* the last response sent, with the request it answers

vars == <<dataset_file, GITHUB_TOKEN, geojson_data, startup, chat, response>>

----------------------------------------------------------------------------
(* Features and stores *)

Coord == 0..MaxCoord

Num(n) == [num |-> TRUE, v |-> n]
NotNum == [num |-> FALSE, v |-> 0]

Geometry(type, coordinates, items) ==
    [geometry |-> "object", type |-> type, coordinates |-> coordinates, items |-> items]

PointFeature(items) == Geometry("Point", "list", items)

WellFormedPoints == {PointFeature(<<Num(lon), Num(lat)>>) : lon \in Coord, lat \in Coord}

NoGeometry == [geometry |-> "absent", type |-> "absent", coordinates |-> "absent", items |-> <<>>]
NullGeometry == [geometry |-> "null", type |-> "absent", coordinates |-> "absent", items |-> <<>>]

OtherFeatures ==
    { PointFeature(<<Num(1), Num(1), Num(0)>>),       \* with an altitude
      Geometry("LineString", "list", <<Num(1), Num(1)>>),
      Geometry("absent", "list", <<Num(1), Num(1)>>), \* geometry without "type"
      NoGeometry,                                      \* feature without "geometry"
      NullGeometry,                                    \* "geometry": null
      Geometry("Point", "absent", <<>>),              \* no "coordinates"
      Geometry("Point", "null", <<>>),                \* "coordinates": null
      PointFeature(<<Num(1)>>),                        \* short
      PointFeature(<<NotNum, NotNum>>),                \* ["x", "y"]
      PointFeature(<<NotNum, Num(1)>>) }               \* ["x", 1]

Features == WellFormedPoints \cup OtherFeatures

\* The features of the dataset files of Spec: two points, a feature the scan
\* skips and one it cannot read.
ServeFeatures ==
    { PointFeature(<<Num(0), Num(1)>>),
      PointFeature(<<Num(1), Num(1)>>),
      Geometry("LineString", "list", <<Num(1), Num(1)>>),
      NullGeometry }

SeqsUpTo(S, n) == UNION {[1..k -> S] : k \in 0..n}

\* Python values the store can hold.
None == [kind |-> "None", type |-> "absent", features |-> "absent", items |-> <<>>]
JsonObject(type, features, items) ==
    [kind |-> "object", type |-> type, features |-> features, items |-> items]
FeatureCollection(items) == JsonObject("FeatureCollection", "list", items)
EmptyObject == JsonObject("absent", "absent", <<>>)
JsonArray == [kind |-> "array", type |-> "absent", features |-> "absent", items |-> <<>>]
JsonNumber == [kind |-> "number", type |-> "absent", features |-> "absent", items |-> <<>>]

\* What reading the dataset file yields: the file is missing, cannot be read,
\* is not JSON, or parses to a value.
File(io, syntax, value) == [io |-> io, syntax |-> syntax, value |-> value]
FailingFiles ==
    { File("missing", "none", None),
      File("unreadable", "none", None),
      File("ok", "invalid", None) }
OddFiles ==
    { File("ok", "json", EmptyObject),                                  \* {}
      File("ok", "json", JsonObject("FeatureCollection", "absent", <<>>)),
      File("ok", "json", JsonObject("FeatureCollection", "null", <<>>)), \* "features": null
      File("ok", "json", JsonArray),                                    \* []
      File("ok", "json", JsonNumber),                                   \* 5
      File("ok", "json", None) }                                        \* null
DatasetFiles(features, n) ==
    FailingFiles \cup OddFiles
        \cup {File("ok", "json", FeatureCollection(fs)) : fs \in SeqsUpTo(features, n)}

Unset == [set |-> FALSE, value |-> ""]         \* os.getenv returns None
Tokens ==
    { Unset,
      [set |-> TRUE, value |-> ""],            \* GITHUB_TOKEN=
      [set |-> TRUE, value |-> "ghp_token"] }

BBoxes == [north : Coord, south : Coord, east : Coord, west : Coord]

----------------------------------------------------------------------------
(* Startup *)

InitWith(files, tokens) ==
    /\ dataset_file \in files
    /\ GITHUB_TOKEN \in tokens
    /\ geojson_data = None
    /\ startup = "pending"
    /\ chat = [pc |-> "idle", calls |-> 0]
    /\ response = [endpoint |-> "none"]

Init == InitWith(DatasetFiles(ServeFeatures, MaxServeFeatures), Tokens)

InitPoints == InitWith(DatasetFiles(Features, MaxFeatures), {Unset})

\* bool(x) of a store value: None and {} are falsy.
Truthy(store) ==
    /\ store.kind = "object"
    /\ (store.type # "absent" \/ store.features # "absent")

\* The print of line 55: len(geojson_data.get('features', [])) raises
\* AttributeError on a value without .get and TypeError on "features": null.
PrintLoadedRaises(store) ==
    \/ store.kind # "object"
    \/ store.features = "null"

load_geojson_data ==
    /\ startup = "pending"
    /\ UNCHANGED <<dataset_file, GITHUB_TOKEN, chat, response>>
    /\ \/ /\ dataset_file.io = "missing"            \* FileNotFoundError
          /\ geojson_data' = FeatureCollection(<<>>)
          /\ startup' = "complete"
       \/ /\ dataset_file.io = "unreadable"         \* another OSError: not caught
          /\ geojson_data' = geojson_data
          /\ startup' = "failed"
       \/ /\ dataset_file.io = "ok"
          /\ dataset_file.syntax = "invalid"        \* json.JSONDecodeError
          /\ geojson_data' = FeatureCollection(<<>>)
          /\ startup' = "complete"
       \/ /\ dataset_file.io = "ok"
          /\ dataset_file.syntax = "json"
          /\ geojson_data' = dataset_file.value
          /\ startup' = IF PrintLoadedRaises(dataset_file.value) THEN "failed" ELSE "complete"

----------------------------------------------------------------------------
(* GET /api/points *)

\* geojson_data.get('features', [])
FeaturesOf(store) == IF store.features = "list" THEN store.items ELSE <<>>

\* One iteration of the loop of lines 201-209: "raise", "skip" or "append".
scan_feature(feature, bbox) ==
    IF feature.geometry = "null" THEN "raise"              \* None.get
    ELSE IF feature.geometry = "absent" THEN "skip"        \* {}.get('type') is None
    ELSE IF feature.type # "Point" THEN "skip"
    ELSE IF feature.coordinates = "null" THEN "raise"      \* len(None)
    ELSE IF feature.coordinates = "absent" THEN "skip"     \* len([]) < 2
    ELSE IF Len(feature.items) < 2 THEN "skip"
    ELSE LET lon == feature.items[1]
             lat == feature.items[2]
         IN  IF ~lat.num THEN "raise"                      \* south <= "y"
             ELSE IF ~(bbox.south <= lat.v /\ lat.v <= bbox.north) THEN "skip"
             ELSE IF ~lon.num THEN "raise"                 \* west <= "x"
             ELSE IF ~(bbox.west <= lon.v /\ lon.v <= bbox.east) THEN "skip"
             ELSE "append"

RECURSIVE filter_features(_, _, _, _)
filter_features(features, i, bbox, filtered_features) ==
    IF i > Len(features) THEN [raised |-> FALSE, features |-> filtered_features]
    ELSE LET step == scan_feature(features[i], bbox)
         IN  IF step = "raise" THEN [raised |-> TRUE, features |-> <<>>]
             ELSE filter_features(features, i + 1, bbox,
                     IF step = "append" THEN Append(filtered_features, features[i])
                     ELSE filtered_features)

\* Query(..., ge=, le=): out-of-range parameters never reach the handler.
QueryValid(bbox) ==
    /\ -90 <= bbox.north /\ bbox.north <= 90
    /\ -90 <= bbox.south /\ bbox.south <= 90
    /\ -180 <= bbox.east /\ bbox.east <= 180
    /\ -180 <= bbox.west /\ bbox.west <= 180

points_result(store, bbox) ==
    IF ~Truthy(store)
    THEN [status |-> 200, body |-> [kind |-> "collection_only", features |-> <<>>]]
    ELSE IF bbox.south > bbox.north
    THEN [status |-> 200,
          body |-> [kind |-> "error",
                    error |-> "South latitude must be less than north latitude"]]
    ELSE IF bbox.west > bbox.east
    THEN [status |-> 200,
          body |-> [kind |-> "error",
                    error |-> "West longitude must be less than east longitude"]]
    ELSE LET scan == filter_features(FeaturesOf(store), 1, bbox, <<>>)
         IN  IF scan.raised
             THEN [status |-> 500, body |-> [kind |-> "internal_error"]]
             ELSE [status |-> 200,
                   body |-> [kind |-> "collection",
                             features |-> scan.features,
                             count |-> Len(scan.features),
                             bounding_box |-> bbox]]

\* The filtered list written back into the store.
get_points_filters_in_place ==
    /\ startup = "complete"
    /\ \E bbox \in BBoxes :
          /\ QueryValid(bbox)
          /\ LET result == points_result(geojson_data, bbox)
             IN  /\ response' = [endpoint |-> "points", request |-> bbox,
                                 status |-> result.status, body |-> result.body]
                 /\ geojson_data' =
                        IF result.body.kind = "collection"
                        THEN [geojson_data EXCEPT !.items = result.body.features]
                        ELSE geojson_data
    /\ UNCHANGED <<dataset_file, GITHUB_TOKEN, startup, chat>>

get_points ==
    /\ startup = "complete"
    /\ \E bbox \in BBoxes :
          /\ QueryValid(bbox)
          /\ LET result == points_result(geojson_data, bbox)
             IN  response' = [endpoint |-> "points", request |-> bbox,
                              status |-> result.status, body |-> result.body]
    /\ UNCHANGED <<dataset_file, GITHUB_TOKEN, geojson_data, startup, chat>>

----------------------------------------------------------------------------
(* GET / and GET /api/health *)

root ==
    /\ startup = "complete"
    /\ response' = [endpoint |-> "root", status |-> 200,
                    body |-> [kind |-> "root",
                              message |-> "Streetlight Points & Citizen Report API",
                              version |-> "1.0.0"]]
    /\ UNCHANGED <<dataset_file, GITHUB_TOKEN, geojson_data, startup, chat>>

\* GITHUB_TOKEN is not None
gpt_configured(token) == token.set

health_result(store, token) ==
    [kind |-> "health",
     status |-> "healthy",
     features_loaded |-> IF Truthy(store) THEN Len(FeaturesOf(store)) ELSE 0,
     gpt_configured |-> gpt_configured(token)]

health_check ==
    /\ startup = "complete"
    /\ response' = [endpoint |-> "health", status |-> 200,
                    body |-> health_result(geojson_data, GITHUB_TOKEN)]
    /\ UNCHANGED <<dataset_file, GITHUB_TOKEN, geojson_data, startup, chat>>

----------------------------------------------------------------------------
(* POST /api/chat *)

\* JSON values of a provider reply.
\* A value is [t, v]: its JSON type and, for a string, the string as <<s>>,
\* for a list of strings, the list.  The keys of an object are kept beside it.
Str(s) == [t |-> "str", v |-> <<s>>]
List(xs) == [t |-> "list", v |-> xs]
Null == [t |-> "null", v |-> <<>>]
Number == [t |-> "number", v |-> <<"5">>]
Array == [t |-> "array", v |-> <<>>]
Object == [t |-> "object", v |-> <<>>]

\* d.get(key, default)
Get(d, key, default) == IF key \in DOMAIN d THEN d[key] ELSE default
Without(d, key) == [k \in DOMAIN d \ {key} |-> d[k]]
With(d, key, value) == [k \in DOMAIN d \cup {key} |-> IF k = key THEN value ELSE d[k]]

ChatKeys == {"response", "query_type", "files_to_query", "response_description", "search_terms"}

FullReply ==
    [response |-> Str("PM2.5 is high near the ring road."),
     query_type |-> Str("analysis"),
     files_to_query |-> List(<<"road_reports.json">>),
     response_description |-> Str("Air quality summary"),
     search_terms |-> List(<<"PM2.5", "noise">>)]

BlankReply ==
    [response |-> Str(""),
     query_type |-> Str(""),
     files_to_query |-> List(<<>>),
     response_description |-> Str(""),
     search_terms |-> List(<<>>)]

NoKeys == Without([content |-> Null], "content")

ReplyObjects ==
    {FullReply, BlankReply, With(FullReply, "content", Str("Other text.")),
     NoKeys, [content |-> Str("Other text.")]}
        \cup {Without(FullReply, k) : k \in ChatKeys}
        \cup {With(FullReply, k, Null) : k \in ChatKeys}

\* response.choices[0].message.content: no content, text that is not JSON,
\* or the text of a JSON value.
NoContent ==
    [content |-> "None", json |-> FALSE, text |-> "", value |-> Null, object |-> NoKeys]
Prose(text) ==
    [content |-> "str", json |-> FALSE, text |-> text, value |-> Null, object |-> NoKeys]
Json(value) ==
    [content |-> "str", json |-> TRUE, text |-> "(json)", value |-> value, object |-> NoKeys]
JsonObj(d) ==
    [content |-> "str", json |-> TRUE, text |-> "(json)", value |-> Object, object |-> d]

Replies ==
    {NoContent, Prose("The ring road is noisy at night."), Prose(""),
     Prose("{\"response\": \"The ring"),
     Json(Number), Json(Array), Json(Str("hello")), Json(Null)}
        \cup {JsonObj(d) : d \in ReplyObjects}

UpstreamErrors == {"401 Unauthorized", "Connection timed out"}

available_files == <<"streetlight_data.json", "road_reports.json", "maintenance_logs.json">>

\* A check for None only: an empty token passes.
credential_missing_only_none(token) == ~token.set

\* not GITHUB_TOKEN
credential_missing(token) == ~token.set \/ token.value = ""

\* A slice one entry short.
first_two(files) == SubSeq(files, 1, IF Len(files) < 2 THEN Len(files) ELSE 2)

\* available_files[:3] if available_files else []
first_three(files) == SubSeq(files, 1, IF Len(files) < 3 THEN Len(files) ELSE 3)

Raised(detail) == [raised |-> TRUE, value |-> Null, object |-> NoKeys, detail |-> detail]
Returned(value, d) == [raised |-> FALSE, value |-> value, object |-> d, detail |-> <<>>]

\* str(e) of an HTTPException: "<status_code>: <detail>"
str_http_exception(detail) == <<"500: ">> \o detail

\* Lines 80-81: the raise is inside the try of line 79, so line 117 wraps it.
query_gpt4_no_token ==
    Raised(<<"Error querying GPT-4 API: ">>
              \o str_http_exception(<<"GITHUB_TOKEN not configured">>))

\* Lines 116-117 after client.complete raised.
query_gpt4_call_failed(error) == Raised(<<"Error querying GPT-4 API: ", error>>)

\* Lines 100-114 after client.complete returned.
query_gpt4_reply(ai_response, files) ==
    IF ai_response.content = "None"
    THEN Raised(<<"Error querying GPT-4 API: ",
                  "the JSON object must be str, bytes or bytearray, not NoneType">>)
    ELSE IF ai_response.json
    THEN Returned(ai_response.value, ai_response.object)
    ELSE Returned(Object,
            [query_type |-> Str("chat"),
             response |-> Str(ai_response.text),
             files_to_query |-> List(first_three(files)),
             response_description |-> Str("Chat response from citizen report bot"),
             search_terms |-> List(<<>>)])

\* ChatResponse(...): pydantic accepts a str for the str fields and a list of
\* str for the List[str] fields.
chat_response_valid(fields) ==
    /\ fields.response.t = "str"
    /\ fields.query_type.t = "str"
    /\ fields.files_to_query.t = "list"
    /\ fields.response_description.t = "str"
    /\ fields.search_terms.t = "list"

\* The two keys of the reply text looked up in the other order.
chat_fields_content_first(d) ==
    [response |-> Get(d, "content",
                      Get(d, "response", Str("Sorry, I couldn't process your request."))),
     query_type |-> Get(d, "query_type", Str("chat")),
     files_to_query |-> Get(d, "files_to_query", List(<<>>)),
     response_description |-> Get(d, "response_description", Str("")),
     search_terms |-> Get(d, "search_terms", List(<<>>))]

chat_fields(d) ==
    [response |-> Get(d, "response",
                      Get(d, "content", Str("Sorry, I couldn't process your request."))),
     query_type |-> Get(d, "query_type", Str("chat")),
     files_to_query |-> Get(d, "files_to_query", List(<<>>)),
     response_description |-> Get(d, "response_description", Str("")),
     search_terms |-> Get(d, "search_terms", List(<<>>))]

ChatError(detail) ==
    [status |-> 500,
     body |-> [kind |-> "http_error", detail |-> <<"Error in chat processing: ">> \o detail]]

\* Lines 157-167, given what query_gpt4 returned or raised.
chat_result(gpt) ==
    IF gpt.raised THEN ChatError(str_http_exception(gpt.detail))
    ELSE IF gpt.value.t # "object"
    THEN ChatError(<<"object has no attribute 'get'">>)
    ELSE LET fields == chat_fields(gpt.object)
         IN  IF ~chat_response_valid(fields)
             THEN ChatError(<<"validation error for ChatResponse">>)
             ELSE [status |-> 200,
                   body |-> [kind |-> "chat",
                             response |-> fields.response.v[1],
                             query_type |-> fields.query_type.v[1],
                             files_to_query |-> fields.files_to_query.v,
                             response_description |-> fields.response_description.v[1],
                             search_terms |-> fields.search_terms.v]]

ChatAnswer(calls, provider, result) ==
    [endpoint |-> "chat", calls |-> calls, provider |-> provider,
     status |-> result.status, body |-> result.body]

\* The request arrives and runs up to client.complete (line 94).
chat_with_bot ==
    /\ startup = "complete"
    /\ chat.pc = "idle"
    /\ IF credential_missing(GITHUB_TOKEN)
       THEN /\ response' = ChatAnswer(0, [outcome |-> "not_called"],
                                      chat_result(query_gpt4_no_token))
            /\ chat' = chat
       ELSE /\ chat' = [pc |-> "awaiting", calls |-> chat.calls + 1]
            /\ response' = response
    /\ UNCHANGED <<dataset_file, GITHUB_TOKEN, geojson_data, startup>>

\* client.complete returns a reply.
complete_returns ==
    /\ chat.pc = "awaiting"
    /\ \E ai_response \in Replies :
          response' = ChatAnswer(chat.calls, [outcome |-> "replied", reply |-> ai_response],
                                 chat_result(query_gpt4_reply(ai_response, available_files)))
    /\ chat' = [pc |-> "idle", calls |-> 0]
    /\ UNCHANGED <<dataset_file, GITHUB_TOKEN, geojson_data, startup>>

\* client.complete raises.
complete_raises ==
    /\ chat.pc = "awaiting"
    /\ \E error \in UpstreamErrors :
          response' = ChatAnswer(chat.calls, [outcome |-> "failed", error |-> error],
                                 chat_result(query_gpt4_call_failed(error)))
    /\ chat' = [pc |-> "idle", calls |-> 0]
    /\ UNCHANGED <<dataset_file, GITHUB_TOKEN, geojson_data, startup>>

----------------------------------------------------------------------------

Next ==
    \/ load_geojson_data
    \/ root
    \/ health_check
    \/ get_points
    \/ chat_with_bot
    \/ complete_returns
    \/ complete_raises

Spec == Init /\ [][Next]_vars

NextPoints == load_geojson_data \/ get_points

SpecPoints == InitPoints /\ [][NextPoints]_vars

----------------------------------------------------------------------------
(* Properties *)

ValidBounds(bbox) == bbox.south <= bbox.north /\ bbox.west <= bbox.east

\* The selection rule of the bounding-box filter, stated on a feature.
InBox(f, bbox) ==
    /\ f.geometry = "object"
    /\ f.type = "Point"
    /\ f.coordinates = "list"
    /\ Len(f.items) >= 2
    /\ f.items[1].num /\ f.items[2].num
    /\ bbox.south <= f.items[2].v /\ f.items[2].v <= bbox.north
    /\ bbox.west <= f.items[1].v /\ f.items[1].v <= bbox.east

\* The features of the store that lie in the box, in store order, duplicates kept.
Eligible(store, bbox) == SelectSeq(FeaturesOf(store), LAMBDA f : InBox(f, bbox))

\* C1: for every loaded store and every bounding box with south <= north and
\* west <= east, the "features" of the points response are exactly the
\* store's in-box Point features with two or more coordinates, in store
\* order and with duplicates kept, and "count" is the length of that list.
C1_PointsExactSubsequence ==
    (response.endpoint = "points" /\ ValidBounds(response.request)) =>
        /\ "features" \in DOMAIN response.body
        /\ response.body.features = Eligible(geojson_data, response.request)
        /\ "count" \in DOMAIN response.body
        /\ response.body.count = Len(response.body.features)

\* C2: a points request with south > north or west > east is answered with
\* the error payload (an "error" field and no feature list), whatever store
\* the startup load produced.
C2_InvalidBoundsError ==
    (response.endpoint = "points" /\ ~ValidBounds(response.request)) =>
        /\ "error" \in DOMAIN response.body
        /\ "features" \notin DOMAIN response.body

\* C7: features of another geometry type, or with missing, null, short or
\* non-numeric coordinates, are skipped without an error: a points request
\* with valid bounds succeeds and returns exactly the in-box point features.
C7_MalformedSilentlyExcluded ==
    (response.endpoint = "points" /\ ValidBounds(response.request)) =>
        /\ response.status = 200
        /\ "error" \notin DOMAIN response.body
        /\ "features" \in DOMAIN response.body
        /\ response.body.features = Eligible(geojson_data, response.request)

\* The file is present, is JSON, and holds a feature-collection object.
WellFormedFile(f) ==
    /\ f.io = "ok"
    /\ f.syntax = "json"
    /\ f.value.kind = "object"
    /\ f.value.type = "FeatureCollection"
    /\ f.value.features = "list"

\* C6: the startup load never crashes: whatever reading the dataset file
\* yields, startup completes, and when the file is not a well-formed
\* feature collection the store is exactly the empty collection.
C6_LoadNeverCrashes ==
    startup # "pending" =>
        /\ startup = "complete"
        /\ ~WellFormedFile(dataset_file) => geojson_data = FeatureCollection(<<>>)

ChatReplied == response.endpoint = "chat" /\ response.provider.outcome = "replied"

\* C3: whenever the credential is present and the provider returns a reply,
\* whatever its text, the chat request ends with a 200 response whose five
\* fields are populated, never with an error.
C3_ChatAlwaysWellFormed ==
    ChatReplied =>
        /\ response.status = 200
        /\ response.body.kind = "chat"
        /\ ChatKeys \subseteq DOMAIN response.body

\* The reply is a JSON object holding the five fields with their types.
MatchesShape(reply) ==
    /\ reply.content = "str" /\ reply.json /\ reply.value.t = "object"
    /\ ChatKeys \subseteq DOMAIN reply.object
    /\ \A k \in {"response", "query_type", "response_description"} :
          reply.object[k].t = "str"
    /\ \A k \in {"files_to_query", "search_terms"} : reply.object[k].t = "list"

\* C4: a provider reply that is a JSON object of the expected shape is
\* returned unmodified: the chat response carries exactly its five values,
\* none replaced by a default or a fallback.
C4_StructuredReplyUnmodified ==
    (ChatReplied /\ MatchesShape(response.provider.reply)) =>
        LET d == response.provider.reply.object
        IN  /\ response.status = 200
            /\ response.body.response = d.response.v[1]
            /\ response.body.query_type = d.query_type.v[1]
            /\ response.body.files_to_query = d.files_to_query.v
            /\ response.body.response_description = d.response_description.v[1]
            /\ response.body.search_terms = d.search_terms.v

C4_Witness ==
    /\ ChatReplied
    /\ response.provider.reply = JsonObj(With(FullReply, "content", Str("Other text.")))
    /\ response.status = 200

FileNames == {"streetlight_data.json", "road_reports.json"}

\* The first three entries of a list, or all of it when it is shorter.
Prefix3(files) == [i \in 1..(IF Len(files) < 3 THEN Len(files) ELSE 3) |-> files[i]]

\* C5: when the reply text is not JSON, the chat response is the fallback:
\* the raw text as response, query_type "chat", the first three candidate
\* files in order (none when no candidate was supplied), the fixed label
\* and no search terms.
C5_FallbackOnUnparsable ==
    (ChatReplied /\ response.provider.reply.content = "str"
                 /\ ~response.provider.reply.json) =>
        /\ response.status = 200
        /\ response.body =
              [kind |-> "chat",
               response |-> response.provider.reply.text,
               query_type |-> "chat",
               files_to_query |-> Prefix3(available_files),
               response_description |-> "Chat response from citizen report bot",
               search_terms |-> <<>>]
        /\ \A files \in SeqsUpTo(FileNames, MaxFiles) :
              LET gpt == query_gpt4_reply(response.provider.reply, files)
              IN  /\ ~gpt.raised
                  /\ gpt.object.files_to_query = List(Prefix3(files))
                  /\ gpt.object.response = Str(response.provider.reply.text)

C5_Witness ==
    /\ ChatReplied
    /\ response.provider.reply = Prose("{\"response\": \"The ring")
    /\ response.body.kind = "chat"
    /\ Len(response.body.files_to_query) = 3

\* No usable credential: the variable is unset or empty.
CredentialAbsent == ~GITHUB_TOKEN.set \/ GITHUB_TOKEN.value = ""

\* C8: a chat request calls the provider at most once, and not at all when
\* the credential is absent: then it ends with an error before any call; a
\* failed call ends the request with an error carrying the upstream
\* message, after exactly one call and with no success response.
C8_AtMostOneProviderCall ==
    /\ chat.calls <= 1
    /\ CredentialAbsent => chat.pc = "idle" /\ chat.calls = 0
    /\ response.endpoint = "chat" =>
          /\ response.calls <= 1
          /\ CredentialAbsent =>
                /\ response.calls = 0
                /\ response.provider.outcome = "not_called"
                /\ response.status = 500
          /\ response.provider.outcome = "failed" =>
                /\ response.calls = 1
                /\ response.status = 500
                /\ response.body.kind = "http_error"
                /\ \E i \in DOMAIN response.body.detail :
                      response.body.detail[i] = response.provider.error

C8_Witness ==
    /\ response.endpoint = "chat"
    /\ response.provider.outcome = "failed"
    /\ response.provider.error = "401 Unauthorized"
    /\ response.calls = 1

\* C9: the health endpoint's gpt_configured is true exactly when a chat
\* request passes the credential check, for an unset, an empty and a
\* non-empty token.
C9_HealthAgreesWithChat ==
    response.endpoint = "health" =>
        (response.body.gpt_configured <=> ~credential_missing(GITHUB_TOKEN))

\* C10: once startup has completed no request writes the store: every step
\* leaves geojson_data as it is, every health response reports the length of
\* the store's feature list (0 when the load fell back to the empty
\* collection), and a points request repeated with the same bounding box
\* gets the same response.
C10_StoreReadOnlyAfterStartup ==
    [][ startup = "complete" =>
          /\ geojson_data' = geojson_data
          /\ response'.endpoint = "health" =>
                /\ response'.body.features_loaded = Len(FeaturesOf(geojson_data))
                /\ ~WellFormedFile(dataset_file) => response'.body.features_loaded = 0
          /\ (/\ response.endpoint = "points"
              /\ response'.endpoint = "points"
              /\ response'.request = response.request) => response' = response ]_vars

C10_Witness ==
    /\ chat.pc = "awaiting"
    /\ response.endpoint = "points"
    /\ response.body.kind = "collection"
    /\ response.body.count = 1

====
